---- MODULE Spec2Model ----
(***************************************************************************)
(* Model of decomp2dbg's GDB client (decomp2dbg/clients/gdb/gdb_client.py): *)
(* the decompiler client (address rebasing, symbol import, variable        *)
(* materialisation), the `decompiler` command and the GDBClient session.   *)
(*                                                                         *)
(* Python strings are sequences of one-character strings, so that          *)
(* str.replace, str.find, str.split and int(x, 0) are computed rather than *)
(* assumed.  An optional value (Python None or a value) is a sequence of   *)
(* length at most one: None is << >>, the value v is << v >>.              *)
(***************************************************************************)
EXTENDS Integers, Sequences, FiniteSets, TLC

(***************************************************************************)
(* Bounds of the model.                                                    *)
(***************************************************************************)
\* the display callback is subscribed at most this many times
MaxHooks == 2
\* the text-segment bases the process introspection can report: 64 .. 63 + MaxLocated
MaxLocated == 1
\* function headers, and global variables, the decompiler reports at most
MaxSyms == 2
\* register variables, and stack variables, of a function at most
MaxRegVars == 1
MaxStackVars == 2
\* addresses handed to rebase_addr: -MaxAddr .. MaxAddr
MaxAddr == 3
\* a type string is made of at most this many pieces
MaxTokens == 5

(***************************************************************************)
(* Strings.                                                                *)
(***************************************************************************)
None == << >>
Some(v) == << v >>

S_connect    == <<"c","o","n","n","e","c","t">>
S_disconnect == <<"d","i","s","c","o","n","n","e","c","t">>
S_info       == <<"i","n","f","o">>
S_bogus      == <<"b","o","g","u","s">>
S_ida        == <<"i","d","a">>
S_ghidra     == <<"g","h","i","d","r","a">>
S_opt_host   == <<"-","-","h","o","s","t">>
S_opt_port   == <<"-","-","p","o","r","t">>
S_opt_base   == <<"-","-","b","a","s","e","-","a","d","d","r">>
S_localhost  == <<"l","o","c","a","l","h","o","s","t">>
S_0x10       == <<"0","x","1","0">>
S_16         == <<"1","6">>
S_0x20       == <<"0","x","2","0">>
S_0          == <<"0">>
S_zz         == <<"z","z">>
S_foo        == <<"f","o","o">>
S_bar        == <<"b","a","r">>
S_rax        == <<"r","a","x">>
S_v1         == <<"v","1">>
S_v2         == <<"v","2">>
S_int        == <<"i","n","t">>
S_int64      == <<"_","_","i","n","t","6","4">>
S_unsigned_  == <<"u","n","s","i","g","n","e","d"," ">>
S_uint       == S_unsigned_ \o S_int
S_arr        == <<"_","_","u","8","[","2","]">>

\* s[from .. Len(s)], the Python slice s[from-1:]
Drop(s, n) == SubSeq(s, n + 1, Len(s))
\* s[:n]
Take(s, n) == SubSeq(s, 1, n)
StartsWith(s, p) == Len(s) >= Len(p) /\ Take(s, Len(p)) = p

\* `p in s` for a non-empty p
RECURSIVE Contains(_, _)
Contains(s, p) ==
    IF Len(s) < Len(p) THEN FALSE
    ELSE IF StartsWith(s, p) THEN TRUE
    ELSE Contains(Tail(s), p)

\* s.replace(p, r) for a non-empty p: leftmost, non-overlapping occurrences
RECURSIVE Replace(_, _, _)
Replace(s, p, r) ==
    IF Len(s) < Len(p) THEN s
    ELSE IF StartsWith(s, p) THEN r \o Replace(Drop(s, Len(p)), p, r)
    ELSE <<Head(s)>> \o Replace(Tail(s), p, r)

\* s.find(c) for a one-character c: the 0-based index of its first
\* occurrence, or -1
RECURSIVE Find(_, _)
Find(s, c) ==
    IF s = << >> THEN -1
    ELSE IF Head(s) = c THEN 0
    ELSE LET r == Find(Tail(s), c) IN IF r = -1 THEN -1 ELSE r + 1

(***************************************************************************)
(* int(x, 0): a Python integer literal, restricted to the characters used  *)
(* here (sign, digits, letters; no underscores and no surrounding blanks). *)
(* The result is [ok, val]; ok = FALSE stands for ValueError.              *)
(***************************************************************************)
DigitVal(c) ==
    CASE c = "0" -> 0 [] c = "1" -> 1 [] c = "2" -> 2 [] c = "3" -> 3
      [] c = "4" -> 4 [] c = "5" -> 5 [] c = "6" -> 6 [] c = "7" -> 7
      [] c = "8" -> 8 [] c = "9" -> 9
      [] c \in {"a", "A"} -> 10 [] c \in {"b", "B"} -> 11
      [] c \in {"c", "C"} -> 12 [] c \in {"d", "D"} -> 13
      [] c \in {"e", "E"} -> 14 [] c \in {"f", "F"} -> 15
      [] OTHER -> 99

RECURSIVE DigitsVal(_, _, _)
DigitsVal(s, base, acc) ==
    IF s = << >> THEN acc
    ELSE DigitsVal(Tail(s), base, acc * base + DigitVal(Head(s)))

AllDigits(s, base) == s # << >> /\ \A i \in 1..Len(s) : DigitVal(s[i]) < base

Unsigned0(s) ==
    IF Len(s) >= 2 /\ s[1] = "0" /\ s[2] \in {"x", "X"}
    THEN [ok |-> AllDigits(Drop(s, 2), 16), radix |-> 16, digits |-> Drop(s, 2)]
    ELSE IF Len(s) >= 2 /\ s[1] = "0" /\ s[2] \in {"o", "O"}
    THEN [ok |-> AllDigits(Drop(s, 2), 8), radix |-> 8, digits |-> Drop(s, 2)]
    ELSE IF Len(s) >= 2 /\ s[1] = "0" /\ s[2] \in {"b", "B"}
    THEN [ok |-> AllDigits(Drop(s, 2), 2), radix |-> 2, digits |-> Drop(s, 2)]
    ELSE [ok |-> AllDigits(s, 10)
                 /\ (s[1] = "0" => \A i \in 1..Len(s) : s[i] = "0"),
          radix |-> 10, digits |-> s]

IntBase0(s) ==
    LET neg  == s # << >> /\ Head(s) = "-"
        body == IF s # << >> /\ Head(s) \in {"-", "+"} THEN Tail(s) ELSE s
        u    == Unsigned0(body)
    IN  IF body = << >> \/ ~u.ok THEN [ok |-> FALSE, val |-> 0]
        ELSE LET v == DigitsVal(u.digits, u.radix, 0)
             IN  [ok |-> TRUE, val |-> IF neg THEN 0 - v ELSE v]

\* str(n) for an integer n, as an f-string formats it
RECURSIVE NatStr(_)
NatStr(n) ==
    LET d == <<"0","1","2","3","4","5","6","7","8","9">>[(n % 10) + 1]
    IN  IF n < 10 THEN <<d>> ELSE NatStr(n \div 10) \o <<d>>
IntStr(n) == IF n < 0 THEN <<"-">> \o NatStr(0 - n) ELSE NatStr(n)

\* arg.split() on blanks: the non-empty maximal runs of non-blank characters
RECURSIVE SplitAcc(_, _)
SplitAcc(s, cur) ==
    IF s = << >> THEN (IF cur = << >> THEN << >> ELSE <<cur>>)
    ELSE IF Head(s) = " "
         THEN (IF cur = << >> THEN << >> ELSE <<cur>>) \o SplitAcc(Tail(s), << >>)
         ELSE SplitAcc(Tail(s), cur \o <<Head(s)>>)
Split(s) == SplitAcc(s, << >>)

\* " ".join(tokens): how a command line is typed
RECURSIVE Join(_)
Join(toks) ==
    IF toks = << >> THEN << >>
    ELSE IF Len(toks) = 1 THEN toks[1]
    ELSE toks[1] \o <<" ">> \o Join(Tail(toks))

(***************************************************************************)
(* GDBDecompilerClient.                                                    *)
(*                                                                         *)
(* The operations work on a record s of the program's state:               *)
(*   name, text_segment_base_addr    the GDBClient attributes              *)
(*   text_base_addr_cache  the lru_cache of the text_base_addr property:   *)
(*                         None when empty, Some(v) once v was returned    *)
(*   _is_pie               GDBDecompilerClient._is_pie                     *)
(*   mapper_base           SymbolMapper.text_base_addr                     *)
(*   native_sym_support    DecompilerClient.native_sym_support             *)
(*   stop_hooks            how many times display_pane_and_title is in     *)
(*                         gdb.events.stop                                 *)
(*   link                  the transport link to the decompiler is up      *)
(*   submitted             the last batch handed to add_native_symbols     *)
(*   registered            the last batch add_native_symbols accepted      *)
(*   log                   the calls made by the handler that ran last     *)
(***************************************************************************)
Log(s, e) == [s EXCEPT !.log = @ \o <<e>>]
\* the handler that ran last made the call e
Called(l, e) == \E i \in 1..Len(l) : l[i] = e

\* @property @lru_cache() text_base_addr: the first value read is kept
text_base_addr(s) ==
    IF s.text_base_addr_cache = None
    THEN [s |-> [s EXCEPT !.text_base_addr_cache = Some(s.text_segment_base_addr)], val |-> s.text_segment_base_addr]
    ELSE [s |-> s, val |-> s.text_base_addr_cache[1]]

\* the is_pie property of the decompiler client; checksec: what
\* GDBClient.is_pie (checksec(get_filepath())["PIE"]) answers when asked
is_pie(s, checksec) ==
    IF s._is_pie = None
    THEN [s |-> [s EXCEPT !._is_pie = Some(checksec)], val |-> checksec]
    ELSE [s |-> s, val |-> s._is_pie[1]]

\* as rebase_addr, subtracting the base whatever `up` says
rebase_addr_down_only(s, addr, up, checksec) ==
    LET p == is_pie(s, checksec) IN
    IF ~p.val THEN [s |-> p.s, val |-> addr, exc |-> "none"]
    ELSE LET t == text_base_addr(p.s) IN
         IF t.val = None THEN [s |-> t.s, val |-> addr, exc |-> "TypeError"]
         ELSE [s |-> t.s, val |-> addr - t.val[1], exc |-> "none"]

\* rebase_addr(addr, up): [s, val, exc]; adding None is a TypeError
rebase_addr(s, addr, up, checksec) ==
    LET p == is_pie(s, checksec) IN
    IF ~p.val THEN [s |-> p.s, val |-> addr, exc |-> "none"]
    ELSE LET t == text_base_addr(p.s) IN
         IF t.val = None THEN [s |-> t.s, val |-> addr, exc |-> "TypeError"]
         ELSE [s |-> t.s,
               val |-> IF up THEN addr + t.val[1] ELSE addr - t.val[1],
               exc |-> "none"]

global_var_size == 8

\* the loop over func_headers.items(): one function entry per header
FuncEntries(fh) ==
    [i \in 1..Len(fh) |->
        [name |-> fh[i].name, addr |-> IntBase0(fh[i].addr).val,
         kind |-> "function", size |-> fh[i].size]]

sym_name_set(fh) == {fh[i].name : i \in 1..Len(fh)}

\* as ObjEntries, without the test against sym_name_set
ObjEntries_keep_all(gv, names) ==
    [i \in 1..Len(gv) |->
        [name |-> gv[i].name, addr |-> IntBase0(gv[i].addr).val,
         kind |-> "object", size |-> global_var_size]]

\* the loop over global_vars.items(): globals named like a function are skipped
RECURSIVE ObjEntries(_, _)
ObjEntries(gv, names) ==
    IF gv = << >> THEN << >>
    ELSE (IF Head(gv).name \in names THEN << >>
          ELSE <<[name |-> Head(gv).name, addr |-> IntBase0(Head(gv).addr).val,
                  kind |-> "object", size |-> global_var_size]>>)
         \o ObjEntries(Tail(gv), names)

syms_to_add(fh, gv) == FuncEntries(fh) \o ObjEntries(gv, sym_name_set(fh))

\* as add_symbols, without `self.native_sym_support = False`
add_symbols_no_downgrade(s, fh, gv, addRaises) ==
    LET s1 == [Log(s, "add_native_symbols") EXCEPT !.submitted = syms_to_add(fh, gv)]
    IN  IF addRaises
        THEN [s |-> Log(Log(s1, "add_native_symbols:raise"), "err"), ret |-> FALSE]
        ELSE [s |-> [s1 EXCEPT !.registered = s1.submitted], ret |-> TRUE]

\* what update_symbols does once native support is known to be there:
\* [s, ret]; addRaises: add_native_symbols raises
add_symbols(s, fh, gv, addRaises) ==
    LET s1 == [Log(s, "add_native_symbols") EXCEPT !.submitted = syms_to_add(fh, gv)]
    IN  IF addRaises
        THEN [s |-> [Log(Log(s1, "add_native_symbols:raise"), "err")
                        EXCEPT !.native_sym_support = FALSE],
              ret |-> FALSE]
        ELSE [s |-> [s1 EXCEPT !.registered = s1.submitted], ret |-> TRUE]

\* as update_symbols, without the test of native_sym_support
update_symbols_unchecked(s, fh, gv, addRaises) ==
    LET t  == text_base_addr(s)
        s1 == [Log(t.s, "update_symbols") EXCEPT !.mapper_base = t.val]
        r  == add_symbols(s1, fh, gv, addRaises)
    IN  [s |-> Log(r.s, "update_symbols:return"), ret |-> r.ret]

\* update_symbols(): [s, ret].  fh and gv are function_headers and
\* global_vars in dict order, their addresses numeric literals.
update_symbols(s, fh, gv, addRaises) ==
    LET t  == text_base_addr(s)
        s1 == [Log(t.s, "update_symbols") EXCEPT !.mapper_base = t.val]
        r  == IF ~s1.native_sym_support THEN [s |-> Log(s1, "err"), ret |-> FALSE]
              ELSE add_symbols(s1, fh, gv, addRaises)
    IN  [s |-> Log(r.s, "update_symbols:return"), ret |-> r.ret]

\* as _clean_type_str, suffixing also a string without `__`
_clean_type_str_always_suffix(type_str) ==
    LET stripped == Replace(type_str, <<"_","_">>, << >>)
        idx      == Find(stripped, "[")
        t1       == IF idx # -1
                    THEN Take(stripped, idx) \o <<"_","t">> \o Drop(stripped, idx)
                    ELSE stripped \o <<"_","t">>
    IN  Replace(t1, S_unsigned_, <<"u">>)

\* as _clean_type_str, rewriting `unsigned ` before the `__` step
_clean_type_str_unsigned_first(type_str) ==
    LET t0 == Replace(type_str, S_unsigned_, <<"u">>)
    IN  IF Contains(t0, <<"_","_">>)
        THEN LET stripped == Replace(t0, <<"_","_">>, << >>)
                 idx      == Find(stripped, "[")
             IN  IF idx # -1
                 THEN Take(stripped, idx) \o <<"_","t">> \o Drop(stripped, idx)
                 ELSE stripped \o <<"_","t">>
        ELSE t0

\* _clean_type_str(type_str)
_clean_type_str(type_str) ==
    LET t1 == IF Contains(type_str, <<"_","_">>)
              THEN LET stripped == Replace(type_str, <<"_","_">>, << >>)
                       idx      == Find(stripped, "[")
                   IN  IF idx # -1
                       THEN Take(stripped, idx) \o <<"_","t">> \o Drop(stripped, idx)
                       ELSE stripped \o <<"_","t">>
              ELSE type_str
    IN  Replace(t1, S_unsigned_, <<"u">>)


(***************************************************************************)
(* update_function_data.                                                   *)
(*                                                                         *)
(* The debugger is an oracle o, one per variable: castOK (gdb knows the    *)
(* type and the register, so that a well-formed cast of them evaluates),   *)
(* setOK (`set $name = <value>` succeeds) and rawOK (the untyped `set`     *)
(* succeeds).  gdb rejects an expression whose parentheses do not match,   *)
(* whatever it knows.                                                      *)
(***************************************************************************)
RECURSIVE Depth(_, _)
\* the nesting depth after e, from depth d; -1 once a `)` has no `(`
Depth(e, d) ==
    IF d < 0 \/ e = << >> THEN d
    ELSE Depth(Tail(e), IF Head(e) = "(" THEN d + 1
                        ELSE IF Head(e) = ")" THEN d - 1 ELSE d)
Balanced(e) == Depth(e, 0) = 0

\* f"""(({type_str}) (${reg_name})"""
reg_expr(type_str, reg_name) ==
    <<"(", "(">> \o type_str \o <<")", " ", "(", "$">> \o reg_name \o <<")">>

\* f"""({type_str}*) ($fp - {offset})"""
stack_expr(type_str, offset) ==
    <<"(">> \o type_str \o <<"*", ")", " ">>
        \o <<"(", "$", "f", "p", " ", "-", " ">> \o IntStr(offset) \o <<")">>

\* gdb.parse_and_eval(expr) returns
parse_and_eval(expr, o) == Balanced(expr) /\ o.castOK

\* one turn of the loop over reg_vars: how the variable ends up
reg_var(var, o) ==
    LET type_str == _clean_type_str(var.type)
        expr     == reg_expr(type_str, var.reg_name)
    IN  IF parse_and_eval(expr, o) /\ o.setOK THEN "typed"
        ELSE IF o.rawOK THEN "untyped"
        ELSE "skipped"

\* as stack_var, without the try around the untyped `set`
stack_var_unguarded(var, o) ==
    LET offset   == IntBase0(var.offset)
        type_str == _clean_type_str(var.type)
        expr     == stack_expr(type_str, offset.val)
    IN  IF ~offset.ok THEN "ValueError"
        ELSE IF Balanced(expr) /\ o.castOK THEN "typed"
        ELSE IF o.rawOK THEN "untyped"
        ELSE "gdb.error"

\* one turn of the loop over stack_vars; int(offset, 0) is outside the try
stack_var(var, o) ==
    LET offset   == IntBase0(var.offset)
        type_str == _clean_type_str(var.type)
        expr     == stack_expr(type_str, offset.val)
    IN  IF ~offset.ok THEN "ValueError"
        ELSE IF Balanced(expr) /\ o.castOK THEN "typed"
        ELSE IF o.rawOK THEN "untyped"
        ELSE "skipped"

\* how a variable can end up; anything else a turn gives is the exception
\* that leaves it
Outcomes == {"typed", "untyped", "skipped"}
Unreached(n) == [i \in 1..n |-> "unreached"]

\* a loop stops at the first exception
RECURSIVE reg_loop(_, _)
reg_loop(vs, os) ==
    IF vs = << >> THEN << >>
    ELSE LET r == reg_var(Head(vs), Head(os)) IN
         IF r \notin Outcomes THEN <<r>> \o Unreached(Len(vs) - 1)
         ELSE <<r>> \o reg_loop(Tail(vs), Tail(os))

RECURSIVE stack_loop(_, _)
stack_loop(vs, os) ==
    IF vs = << >> THEN << >>
    ELSE LET r == stack_var(Head(vs), Head(os)) IN
         IF r \notin Outcomes THEN <<r>> \o Unreached(Len(vs) - 1)
         ELSE <<r>> \o stack_loop(Tail(vs), Tail(os))

Raised(outs) ==
    IF \E i \in 1..Len(outs) : outs[i] \notin Outcomes \cup {"unreached"}
    THEN outs[CHOOSE i \in 1..Len(outs) : outs[i] \notin Outcomes \cup {"unreached"}]
    ELSE "none"

\* update_function_data(addr) on func_data = [reg_vars, stack_vars]:
\* how each variable ends up and the exception that leaves the pass
update_function_data(func_data, oracle) ==
    LET regs  == reg_loop(func_data.reg_vars, oracle.reg)
        stack == IF Raised(regs) # "none"
                 THEN Unreached(Len(func_data.stack_vars))
                 ELSE stack_loop(func_data.stack_vars, oracle.stack)
    IN  [reg |-> regs, stack |-> stack,
         exc |-> IF Raised(regs) # "none" THEN Raised(regs) ELSE Raised(stack)]

(***************************************************************************)
(* GDBClient: the stop-event hook and the decompiler events.               *)
(***************************************************************************)
\* gdb.events.stop.connect appends the callback, also when it is there already
register_decompiler_context_pane(s) ==
    [Log(s, "events.stop.connect") EXCEPT !.stop_hooks = @ + 1]

\* gdb.events.stop.disconnect removes one occurrence of the callback; what
\* gdb does when there is none is gdb's business: nothing (absentFaults
\* FALSE) or an error raised to the caller (absentFaults TRUE).  [s, exc]
deregister_decompiler_context_pane(s, absentFaults) ==
    LET s1 == Log(s, "events.stop.disconnect") IN
    IF s.stop_hooks > 0 THEN [s |-> [s1 EXCEPT !.stop_hooks = @ - 1], exc |-> "none"]
    ELSE [s |-> s1, exc |-> IF absentFaults THEN "SystemError" ELSE "none"]

\* as on_decompiler_connected, subscribing the hook before the import
on_decompiler_connected_hook_first(s, located, fh, gv, addRaises) ==
    LET s1 == IF s.text_segment_base_addr = None
              THEN [Log(s, "find_text_segment_base_addr")
                        EXCEPT !.text_segment_base_addr = Some(located)]
              ELSE s
        u  == update_symbols(register_decompiler_context_pane(s1), fh, gv, addRaises)
    IN  [s |-> u.s, ret |-> u.ret]

\* as on_decompiler_connected, testing the base for truth instead of
\* `is None`
on_decompiler_connected_falsy_base(s, located, fh, gv, addRaises) ==
    LET s1 == IF s.text_segment_base_addr \in {None, Some(0)}
              THEN [Log(s, "find_text_segment_base_addr")
                        EXCEPT !.text_segment_base_addr = Some(located)]
              ELSE s
        u  == update_symbols(s1, fh, gv, addRaises)
    IN  [s |-> register_decompiler_context_pane(u.s), ret |-> u.ret]

\* on_decompiler_connected; located: what find_text_segment_base_addr returns
on_decompiler_connected(s, located, fh, gv, addRaises) ==
    LET s1 == IF s.text_segment_base_addr = None
              THEN [Log(s, "find_text_segment_base_addr")
                        EXCEPT !.text_segment_base_addr = Some(located)]
              ELSE s
        u  == update_symbols(s1, fh, gv, addRaises)
    IN  [s |-> register_decompiler_context_pane(u.s), ret |-> u.ret]

on_decompiler_disconnected(s, absentFaults) ==
    deregister_decompiler_context_pane(s, absentFaults)

(***************************************************************************)
(* DecompilerClient (decomp2dbg/clients/client.py), the transport.         *)
(* connect returns whether the link came up and on success fires           *)
(* decompiler_connected; disconnect drops the link and fires               *)
(* decompiler_disconnected.                                                *)
(***************************************************************************)
\* [s, ret, imported]; linkUp: the decompiler answered
DecompilerClient_connect(s, linkUp, located, fh, gv, addRaises) ==
    LET s1 == Log(s, "decompiler.connect") IN
    IF ~linkUp THEN [s |-> s1, ret |-> FALSE, imported |-> None]
    ELSE LET c == on_decompiler_connected([s1 EXCEPT !.link = TRUE],
                                          located, fh, gv, addRaises)
         IN  [s |-> c.s, ret |-> TRUE, imported |-> Some(c.ret)]

\* [s, exc]
DecompilerClient_disconnect(s, absentFaults) ==
    on_decompiler_disconnected(
        [Log(s, "decompiler.disconnect") EXCEPT !.link = FALSE], absentFaults)

(***************************************************************************)
(* DecompilerCommand: the argument parser.                                 *)
(*                                                                         *)
(* parse_args over the tokens: [kind, ns].  kind is "ok", "ArgumentError"  *)
(* (argparse raises ArgumentError: a bad choice, a bad or missing option   *)
(* value) or "error" (argparse calls parser.error: a required positional   *)
(* is missing, or arguments are left over).  ns is the Namespace, a record *)
(* whose fields are its attributes.  Options are matched by their full     *)
(* name (no abbreviation, no --opt=value).                                 *)
(***************************************************************************)
commands == {S_connect, S_disconnect, S_info}

IsOption(tok) == Len(tok) >= 1 /\ tok[1] = "-"

\* int(x): a decimal literal with an optional sign
IntBase10(tok) ==
    LET body == IF tok # << >> /\ Head(tok) \in {"-", "+"} THEN Tail(tok) ELSE tok
    IN  IF AllDigits(body, 10)
        THEN [ok |-> TRUE,
              val |-> IF Head(tok) = "-" THEN 0 - DigitsVal(body, 10, 0)
                      ELSE DigitsVal(body, 10, 0)]
        ELSE [ok |-> FALSE, val |-> 0]

\* acc: [pos, host, port, base_addr, extras, bad]
RECURSIVE ScanArgs(_, _)
ScanArgs(toks, acc) ==
    IF toks = << >> \/ acc.bad THEN acc
    ELSE LET tok == Head(toks) IN
    IF tok \in {S_opt_host, S_opt_port, S_opt_base}
    THEN IF Len(toks) < 2 \/ IsOption(toks[2])
         THEN [acc EXCEPT !.bad = TRUE]
         ELSE LET v == toks[2] IN
              IF tok = S_opt_host
              THEN ScanArgs(Drop(toks, 2), [acc EXCEPT !.host = v])
              ELSE IF tok = S_opt_port
              THEN IF IntBase10(v).ok
                   THEN ScanArgs(Drop(toks, 2), [acc EXCEPT !.port = IntBase10(v).val])
                   ELSE [acc EXCEPT !.bad = TRUE]
              ELSE IF IntBase0(v).ok
                   THEN ScanArgs(Drop(toks, 2),
                                 [acc EXCEPT !.base_addr = Some(IntBase0(v).val)])
                   ELSE [acc EXCEPT !.bad = TRUE]
    ELSE IF IsOption(tok) \/ Len(acc.pos) >= 2
    THEN ScanArgs(Tail(toks), [acc EXCEPT !.extras = @ + 1])
    ELSE IF Len(acc.pos) = 0 /\ tok \notin commands
    THEN [acc EXCEPT !.bad = TRUE]
    ELSE ScanArgs(Tail(toks), [acc EXCEPT !.pos = @ \o <<tok>>])

parse_args(raw_args) ==
    LET a == ScanArgs(raw_args,
                      [pos |-> << >>, host |-> S_localhost, port |-> 3662,
                       base_addr |-> None, extras |-> 0, bad |-> FALSE])
        ns == [command |-> IF Len(a.pos) >= 1 THEN a.pos[1] ELSE << >>,
               decompiler_name |-> IF Len(a.pos) >= 2 THEN a.pos[2] ELSE << >>,
               host |-> a.host, port |-> a.port, base_addr |-> a.base_addr]
    IN  [kind |-> IF a.bad THEN "ArgumentError"
                  ELSE IF Len(a.pos) < 2 \/ a.extras > 0 THEN "error"
                  ELSE "ok",
         ns |-> ns]

\* getattr(args, attr) finds the attribute
HasAttr(args, attr) == attr \in DOMAIN args

(***************************************************************************)
(* DecompilerCommand: the handlers.  Each gives [s, exc, linkUp, imported] *)
(* where exc is the exception that leaves the handler ("none" for a        *)
(* return).  env holds what the collaborators answer during the command:   *)
(*   linkUp        the transport's connect succeeds                        *)
(*   located       the text base find_text_segment_base_addr reports       *)
(*   fh, gv        the decompiler's function headers and global variables  *)
(*   addRaises     add_native_symbols raises                               *)
(*   absentFaults  unsubscribing an absent callback raises                 *)
(*   errorExits    parser.error exits instead of raising ArgumentError     *)
(***************************************************************************)
Handled(s, exc) == [s |-> s, exc |-> exc, linkUp |-> None, imported |-> None]

_handle_connect(s, args, env) ==
    IF args.decompiler_name = << >> THEN Handled(Log(s, "err"), "none")
    ELSE LET s1 == [s EXCEPT !.text_segment_base_addr = args.base_addr,
                             !.name = Some(args.decompiler_name)]
             c  == DecompilerClient_connect(s1, env.linkUp, env.located,
                                            env.fh, env.gv, env.addRaises)
         IN  [s |-> Log(c.s, IF c.ret THEN "info" ELSE "err"), exc |-> "none",
              linkUp |-> Some(c.ret), imported |-> c.imported]

\* args.name: the parser defines decompiler_name, and no attribute `name`
_handle_disconnect(s, args, env) ==
    IF ~HasAttr(args, "name") THEN Handled(s, "AttributeError")
    ELSE IF args.name = << >> THEN Handled(Log(s, "err"), "none")
    ELSE LET d == DecompilerClient_disconnect(s, env.absentFaults)
         IN  IF d.exc # "none" THEN Handled(d.s, d.exc)
             ELSE Handled(Log(d.s, "info"), "none")

_handle_info(s, args, env) == Handled(Log(Log(s, "info"), "print"), "none")

\* getattr(self, "_handle_" + cmd)(args)
_handle_cmd(s, args, env) ==
    IF args.command = S_connect THEN _handle_connect(s, args, env)
    ELSE IF args.command = S_disconnect THEN _handle_disconnect(s, args, env)
    ELSE _handle_info(s, args, env)

\* invoke(arg, from_tty) while the debugged program runs.  parser.error
\* exits (SystemExit, which `except Exception` lets through) or, on the
\* Python versions where exit_on_error=False covers it, raises
\* ArgumentError: env.errorExits says which this Python does.
invoke(s, arg, env) ==
    LET p == parse_args(Split(arg)) IN
    IF p.kind = "ArgumentError" \/ (p.kind = "error" /\ ~env.errorExits)
    THEN Handled(Log(Log(s, "err"), "print_help"), "none")
    ELSE IF p.kind = "error" THEN Handled(s, "SystemExit")
    ELSE _handle_cmd(Log(s, "_handle_cmd"), p.ns, env)


(***************************************************************************)
(* The session: state, inputs and operations.                              *)
(***************************************************************************)
VARIABLES
    name,                    \* GDBClient.name
    text_segment_base_addr,  \* GDBClient.text_segment_base_addr
    text_base_addr_cache,    \* the lru_cache of GDBDecompilerClient.text_base_addr
    _is_pie,                 \* GDBDecompilerClient._is_pie
    mapper_base,             \* SymbolMapper.text_base_addr
    native_sym_support,      \* DecompilerClient.native_sym_support
    stop_hooks,              \* subscriptions of the display callback to gdb.events.stop
    link,                    \* the transport link is up
    submitted,               \* the last batch handed to add_native_symbols
    registered,              \* the last batch add_native_symbols accepted
    log,                     \* the calls of the handler that ran last
    last,                    \* the operation that ran last, and how it ended
    input,                   \* what the decompiler and the debugger answer to
                             \* update_symbols or update_function_data
    outcome                  \* what update_function_data did with each variable

vars == <<name, text_segment_base_addr, text_base_addr_cache, _is_pie,
          mapper_base, native_sym_support, stop_hooks, link, submitted,
          registered, log, last, input, outcome>>

St == [name |-> name, text_segment_base_addr |-> text_segment_base_addr,
       text_base_addr_cache |-> text_base_addr_cache, _is_pie |-> _is_pie,
       mapper_base |-> mapper_base,
       native_sym_support |-> native_sym_support, stop_hooks |-> stop_hooks,
       link |-> link, submitted |-> submitted, registered |-> registered,
       log |-> log]

SetSt(s) ==
    /\ name' = s.name
    /\ text_segment_base_addr' = s.text_segment_base_addr
    /\ text_base_addr_cache' = s.text_base_addr_cache
    /\ _is_pie' = s._is_pie
    /\ mapper_base' = s.mapper_base
    /\ native_sym_support' = s.native_sym_support
    /\ stop_hooks' = s.stop_hooks
    /\ link' = s.link
    /\ submitted' = s.submitted
    /\ registered' = s.registered
    /\ log' = s.log

\* command lines as typed after `decompiler`
L_connect          == S_connect
L_connect_ida      == Join(<<S_connect, S_ida>>)
L_connect_ghidra_20 == Join(<<S_connect, S_ghidra, S_opt_base, S_0x20>>)
L_connect_ida_0    == Join(<<S_connect, S_ida, S_opt_base, S_0>>)
L_connect_bad_base == Join(<<S_connect, S_ida, S_opt_base, S_zz>>)
L_disconnect_ida   == Join(<<S_disconnect, S_ida>>)
L_info             == S_info
L_info_ida         == Join(<<S_info, S_ida>>)
L_bogus_ida        == Join(<<S_bogus, S_ida>>)

CommandLines ==
    {L_connect, L_connect_ida, L_connect_ida_0, L_connect_ghidra_20,
     L_connect_bad_base, L_disconnect_ida, L_info, L_info_ida, L_bogus_ida}

Located == 64 .. (63 + MaxLocated)

\* the decompiler's answers during a session command: nothing, or a
\* function and a global variable that share a name
Fn(a, n) == [addr |-> a, name |-> n, size |-> 4]
Gv(a, n) == [addr |-> a, name |-> n]
SessionDBs ==
    {[fh |-> << >>, gv |-> << >>],
     [fh |-> <<Fn(S_0x10, S_foo)>>, gv |-> <<Gv(S_0x20, S_foo)>>]}

\* the collaborators' answers that a command line can consult: only a
\* `connect` that parses reaches the transport's connect and the symbol
\* import, only `disconnect` reaches the unsubscription, only a line for
\* which argparse calls parser.error depends on what parser.error does
Envs(arg) ==
    LET kind     == parse_args(Split(arg)).kind
        connects == kind = "ok" /\ StartsWith(arg, S_connect)
        NoDB     == [fh |-> << >>, gv |-> << >>]
    IN  {[linkUp |-> l, located |-> b, fh |-> db.fh, gv |-> db.gv,
          addRaises |-> r, absentFaults |-> f, errorExits |-> x] :
            l \in IF connects THEN BOOLEAN ELSE {FALSE},
            b \in IF connects THEN Located ELSE {64},
            db \in IF connects THEN SessionDBs ELSE {NoDB},
            r \in IF connects THEN BOOLEAN ELSE {FALSE},
            f \in IF StartsWith(arg, S_disconnect) THEN BOOLEAN ELSE {FALSE},
            x \in IF kind = "error" THEN BOOLEAN ELSE {FALSE}}

Fresh == [St EXCEPT !.log = << >>]

InitSession ==
    /\ name = None
    /\ text_segment_base_addr = None
    /\ text_base_addr_cache = None
    /\ _is_pie = None
    /\ mapper_base = None
    /\ native_sym_support \in BOOLEAN
    /\ stop_hooks = 0
    /\ link = FALSE
    /\ submitted = << >>
    /\ registered = << >>
    /\ log = << >>
    /\ last = [op |-> "init", arg |-> << >>, again |-> FALSE, exc |-> "none",
               linkUp |-> None, imported |-> None, val |-> None]
    /\ outcome = None

Init == InitSession /\ input = None

\* the user types `decompiler <arg>`; last.val: what
\* find_text_segment_base_addr returned, when the command called it
Invoke ==
    \E arg \in CommandLines : \E env \in Envs(arg) :
        \E r \in {invoke(Fresh, arg, env)} :
        /\ r.s.stop_hooks <= MaxHooks
        /\ SetSt(r.s)
        /\ last' = [op |-> "invoke", arg |-> arg,
                    again |-> (last.op = "invoke" /\ last.arg = arg),
                    exc |-> r.exc, linkUp |-> r.linkUp,
                    imported |-> r.imported,
                    val |-> IF Called(r.s.log, "find_text_segment_base_addr")
                            THEN Some(env.located) ELSE None]
        /\ UNCHANGED <<input, outcome>>

\* DecompilerClient.disconnect() called on the client itself
Disconnect ==
    \E f \in BOOLEAN :
        \E r \in {DecompilerClient_disconnect(Fresh, f)} :
        /\ SetSt(r.s)
        /\ last' = [op |-> "disconnect", arg |-> << >>,
                    again |-> (last.op = "disconnect"), exc |-> r.exc,
                    linkUp |-> None, imported |-> None, val |-> None]
        /\ UNCHANGED <<input, outcome>>

\* the debugged program stops: gdb runs the subscribed display callbacks,
\* which turn the program counter into a static address
ProgramCounters == {100}
StopEvent ==
    \E pc \in ProgramCounters, checksec \in BOOLEAN :
        \E r \in {rebase_addr(Fresh, pc, FALSE, checksec)} :
        /\ stop_hooks > 0
        /\ SetSt(Log(r.s, "display_pane_and_title"))
        /\ last' = [op |-> "stop", arg |-> << >>, again |-> FALSE,
                    exc |-> r.exc, linkUp |-> None, imported |-> None,
                    val |-> Some(r.val)]
        /\ UNCHANGED <<input, outcome>>

Next == Invoke \/ Disconnect \/ StopEvent

Spec == Init /\ [][Next]_vars

(***************************************************************************)
(* update_symbols on its own, over the decompiler's symbol tables.         *)
(***************************************************************************)
\* the sequences over S of length at most n
SeqsUpTo(S, n) == UNION {[1..k -> S] : k \in 0..n}
\* a dict has one item per key
DistinctBy(q, key(_)) == \A i, j \in 1..Len(q) : key(q[i]) = key(q[j]) => i = j
AddrOf(e) == e.addr

SymNames == {S_foo, S_bar}
FuncHeaders ==
    {q \in SeqsUpTo({Fn(a, n) : a \in {S_0x10, S_0x20}, n \in SymNames}, MaxSyms) :
        DistinctBy(q, AddrOf)}
GlobalVars ==
    {q \in SeqsUpTo({Gv(a, n) : a \in {S_16, S_0x20}, n \in SymNames}, MaxSyms) :
        DistinctBy(q, AddrOf)}

InitSym ==
    /\ InitSession
    /\ input \in [fh : FuncHeaders, gv : GlobalVars, addRaises : BOOLEAN]

UpdateSymbols ==
    \E r \in {update_symbols(Fresh, input.fh, input.gv, input.addRaises)} :
        /\ last.op = "init"
        /\ SetSt(r.s)
        /\ last' = [op |-> "update_symbols", arg |-> << >>, again |-> FALSE,
                    exc |-> "none", linkUp |-> None, imported |-> Some(r.ret),
                    val |-> None]
        /\ UNCHANGED <<input, outcome>>

NextSym == UpdateSymbols

SpecSym == InitSym /\ [][NextSym]_vars

(***************************************************************************)
(* update_function_data on its own, over the function data the decompiler  *)
(* reports and the debugger's answers.                                     *)
(***************************************************************************)
MatTypes == {S_int64, S_uint}
VarNames == <<S_v1, S_v2, S_foo, S_bar>>
Offsets  == {S_0x10, S_16, S_zz}
OffsetOf(e) == e.offset

\* the i-th register variable is named VarNames[i]: a dict has one item per name
Named(q) == [i \in 1..Len(q) |-> [q[i] EXCEPT !.name = VarNames[i]]]
RegVars ==
    {Named(q) : q \in SeqsUpTo([name : {S_v1}, type : MatTypes, reg_name : {S_rax}],
                               MaxRegVars)}
StackVars ==
    {q \in SeqsUpTo([offset : Offsets, type : {S_uint}, name : {S_v2}], MaxStackVars) :
        DistinctBy(q, OffsetOf)}
RegOracles(n) == [1..n -> [castOK : BOOLEAN, setOK : BOOLEAN, rawOK : BOOLEAN]]
StackOracles(n) == [1..n -> [castOK : BOOLEAN, setOK : {TRUE}, rawOK : BOOLEAN]]

InitMat ==
    /\ InitSession
    /\ native_sym_support
    /\ \E rv \in RegVars, sv \in StackVars :
          \E ro \in RegOracles(Len(rv)), so \in StackOracles(Len(sv)) :
              input = [func_data |-> [reg_vars |-> rv, stack_vars |-> sv],
                       oracle |-> [reg |-> ro, stack |-> so]]

\* the display callback calls update_function_data for the stopped frame
UpdateFunctionData ==
    /\ outcome = None
    /\ outcome' = Some(update_function_data(input.func_data, input.oracle))
    /\ last' = [last EXCEPT !.op = "update_function_data"]
    /\ UNCHANGED <<name, text_segment_base_addr, text_base_addr_cache, _is_pie,
                   mapper_base, native_sym_support, stop_hooks, link,
                   submitted, registered, log, input>>

NextMat == UpdateFunctionData

SpecMat == InitMat /\ [][NextMat]_vars

(***************************************************************************)
(* rebase_addr on its own, in a Connected session: the import of the       *)
(* connect has read text_base_addr, whose cache holds the base of the      *)
(* first connect, while text_segment_base_addr is the base of the last.    *)
(***************************************************************************)
Addrs == (0 - MaxAddr) .. MaxAddr
RebaseBases == {0, 16} \cup Located

InitRebase ==
    /\ name = Some(S_ida)
    /\ \E b \in RebaseBases, c \in RebaseBases :
          /\ text_segment_base_addr = Some(b)
          /\ text_base_addr_cache = Some(Some(c))
          /\ mapper_base = Some(c)
    /\ _is_pie \in {None, Some(TRUE), Some(FALSE)}
    /\ native_sym_support = TRUE
    /\ stop_hooks = 1
    /\ link = TRUE
    /\ submitted = << >>
    /\ registered = << >>
    /\ log = << >>
    /\ last = [op |-> "init", arg |-> << >>, again |-> FALSE, exc |-> "none",
               linkUp |-> None, imported |-> None, val |-> None]
    /\ input = None
    /\ outcome = None

\* rebase_addr(addr, up) and then rebase_addr of its result the other way;
\* c1, c2: what checksec answers if either call asks
Rebase ==
    \E addr \in Addrs, up \in BOOLEAN, c1 \in BOOLEAN, c2 \in BOOLEAN :
        \E r1 \in {rebase_addr(Fresh, addr, up, c1)} :
        \E r2 \in {rebase_addr(r1.s, r1.val, ~up, c2)} :
        /\ last.op = "init"
        /\ SetSt(r2.s)
        /\ last' = [last EXCEPT !.op = "rebase_addr", !.exc = r2.exc]
        /\ outcome' = Some([addr |-> addr, up |-> up, there |-> r1.val,
                            back |-> r2.val, exc |-> r1.exc])
        /\ UNCHANGED input

NextRebase == Rebase

SpecRebase == InitRebase /\ [][NextRebase]_vars

(***************************************************************************)
(* _clean_type_str on its own, applied to a type string and then to its    *)
(* own result.  A type string is a run of pieces: underscores, an array    *)
(* bracket, the word `unsigned`, a blank and a type name.                  *)
(***************************************************************************)
S_unsigned == <<"u","n","s","i","g","n","e","d">>
TypeTokens == {<<"_">>, <<"[">>, S_unsigned, <<" ">>, S_int}

RECURSIVE Concat(_)
Concat(q) == IF q = << >> THEN << >> ELSE Head(q) \o Concat(Tail(q))

InitType ==
    /\ InitSession
    /\ native_sym_support
    /\ \E q \in SeqsUpTo(TypeTokens, MaxTokens) :
          input = [type_str |-> Concat(q)]

\* outcome: the results of the calls made so far
CleanTypeStr ==
    /\ Len(outcome) < 2
    /\ outcome' = Append(outcome,
                         _clean_type_str(IF outcome = << >> THEN input.type_str
                                         ELSE outcome[Len(outcome)]))
    /\ last' = [last EXCEPT !.op = "_clean_type_str"]
    /\ UNCHANGED <<name, text_segment_base_addr, text_base_addr_cache, _is_pie,
                   mapper_base, native_sym_support, stop_hooks, link,
                   submitted, registered, log, input>>

NextType == CleanTypeStr

SpecType == InitType /\ [][NextType]_vars

(***************************************************************************)
(* The claims.                                                             *)
(***************************************************************************)
IsInvoke(l, arg) == l.op = "invoke" /\ l.arg = arg

\* C1: from a Connected session, `decompiler disconnect <name>` runs to
\* completion without raising, calls the transport's disconnect, and leaves
\* the stop-event hook unsubscribed and the session Disconnected.
C1_DisconnectCompletes ==
    [][(link /\ IsInvoke(last', L_disconnect_ida))
        => /\ last'.exc = "none"
           /\ Called(log', "decompiler.disconnect")
           /\ stop_hooks' = 0
           /\ ~link']_vars

\* C2: after every successful connect, the base cached for rebase_addr and
\* the base update_symbols handed to the symbol mapper are the base resolved
\* by that connect, never the base of an earlier connect cycle.
C2_BaseOfThisConnect ==
    (last.op = "invoke" /\ last.linkUp = Some(TRUE))
        => /\ text_segment_base_addr # None
           /\ mapper_base = text_segment_base_addr
           /\ text_base_addr_cache = Some(text_segment_base_addr)

\* C3: over register and stack variables whose offsets are numeric
\* literals, with any type strings and whichever debugger evaluations fail,
\* update_function_data returns without raising and every variable is bound
\* typed, bound untyped or skipped.
OffsetsAreLiterals ==
    \A i \in 1..Len(input.func_data.stack_vars) :
        IntBase0(input.func_data.stack_vars[i].offset).ok
C3_MaterializeNeverRaises ==
    (outcome # None /\ OffsetsAreLiterals)
        => /\ outcome[1].exc = "none"
           /\ Len(outcome[1].reg) = Len(input.func_data.reg_vars)
           /\ Len(outcome[1].stack) = Len(input.func_data.stack_vars)
           /\ \A i \in 1..Len(outcome[1].reg) : outcome[1].reg[i] \in Outcomes
           /\ \A i \in 1..Len(outcome[1].stack) : outcome[1].stack[i] \in Outcomes
\* a pass over a register variable and two stack variables in which a typed
\* binding, an untyped binding and a skip all happen
C3_Witness ==
    /\ outcome # None /\ OffsetsAreLiterals
    /\ Len(outcome[1].reg) >= 1 /\ Len(outcome[1].stack) >= 1
    /\ \E i \in 1..Len(outcome[1].stack) : outcome[1].stack[i] = "typed"
    /\ \E i \in 1..Len(outcome[1].reg) : outcome[1].reg[i] = "skipped"
    /\ \E i \in 1..Len(outcome[1].reg) :
          input.func_data.reg_vars[i].type = S_int64
    /\ \E i \in 1..Len(outcome[1].stack) :
          ~input.oracle.stack[i].castOK /\ outcome[1].stack[i] = "untyped"

\* C4: a register variable whose normalized type the debugger accepts as a
\* cast of its register gets a well-formed expression and is bound from the
\* typed value, without the untyped fallback.
C4_TypedWhenAccepted ==
    outcome # None
        => \A i \in 1..Len(outcome[1].reg) :
              (input.oracle.reg[i].castOK /\ input.oracle.reg[i].setOK)
                  => /\ Balanced(reg_expr(
                            _clean_type_str(input.func_data.reg_vars[i].type),
                            input.func_data.reg_vars[i].reg_name))
                     /\ outcome[1].reg[i] = "typed"

\* C5: the batch handed to add_native_symbols has one function entry per
\* function header, no object entry named like a function header, and a name
\* shared by one function and one global exactly once, as the function at
\* the function's address.
FunctionEntry(h) ==
    [name |-> h.name, addr |-> IntBase0(h.addr).val, kind |-> "function",
     size |-> h.size]
Indices(q, P(_)) == {i \in 1..Len(q) : P(q[i])}
C5_FunctionsWin ==
    (last.op = "update_symbols" /\ Called(log, "add_native_symbols"))
        => /\ Cardinality(Indices(submitted, LAMBDA e : e.kind = "function"))
                = Len(input.fh)
           /\ \A i \in 1..Len(input.fh) :
                 \E j \in 1..Len(submitted) : submitted[j] = FunctionEntry(input.fh[i])
           /\ \A j \in 1..Len(submitted) :
                 submitted[j].kind = "object"
                     => \A i \in 1..Len(input.fh) :
                            input.fh[i].name # submitted[j].name
           /\ \A n \in SymNames :
                 (/\ Cardinality(Indices(input.fh, LAMBDA h : h.name = n)) = 1
                  /\ Cardinality(Indices(input.gv, LAMBDA g : g.name = n)) = 1)
                     => /\ Cardinality(Indices(submitted, LAMBDA e : e.name = n)) = 1
                        /\ \A j \in 1..Len(submitted) :
                              submitted[j].name = n
                                  => \E i \in 1..Len(input.fh) :
                                        submitted[j] = FunctionEntry(input.fh[i])
\* function foo at 0x10 and global foo at 0x20, next to a global bar: the
\* batch is foo as a function at 16 and bar as an object
C5_Witness ==
    /\ last.op = "update_symbols" /\ Called(log, "add_native_symbols")
    /\ input.fh = <<Fn(S_0x10, S_foo)>>
    /\ input.gv = <<Gv(S_0x20, S_foo), Gv(S_16, S_bar)>>
    /\ submitted = <<[name |-> S_foo, addr |-> 16, kind |-> "function", size |-> 4],
                     [name |-> S_bar, addr |-> 16, kind |-> "object", size |-> 8]>>

\* C6: when native_sym_support is false, update_symbols returns False
\* without calling add_native_symbols, and no entry is registered.
C6_NoSupportNoRegistration ==
    [][(~native_sym_support /\ last'.imported # None)
        => /\ last'.imported = Some(FALSE)
           /\ ~Called(log', "add_native_symbols")
           /\ submitted' = submitted
           /\ registered' = registered]_vars
\* update_symbols has run without support over a non-empty symbol table
C6_Witness ==
    /\ last.op = "update_symbols" /\ last.imported = Some(FALSE)
    /\ ~native_sym_support /\ ~input.addRaises
    /\ input.fh # << >> /\ registered = << >>

\* C7: when add_native_symbols raises, update_symbols returns False and
\* native_sym_support becomes false; once false it stays false and no later
\* operation calls add_native_symbols.
C7_DowngradeIsPermanent ==
    [][/\ Called(log', "add_native_symbols:raise")
            => (last'.imported = Some(FALSE) /\ ~native_sym_support')
       /\ ~native_sym_support
            => (~native_sym_support' /\ ~Called(log', "add_native_symbols"))]_vars
\* a connect whose import raised in add_native_symbols
C7_Witness ==
    /\ last.op = "invoke" /\ last.linkUp = Some(TRUE)
    /\ Called(log, "add_native_symbols:raise")
    /\ ~native_sym_support

\* C8: in every decompiler-connected event update_symbols has returned
\* before the display hook is subscribed, so a hook is subscribed, and a
\* stop-event callback runs, only after a symbol import has run to its end.
C8_ImportBeforeHook ==
    /\ \A i \in 1..Len(log) :
          log[i] = "events.stop.connect"
              => \E j \in 1..(i - 1) : log[j] = "update_symbols:return"
    /\ stop_hooks > 0 => text_base_addr_cache # None
    /\ last.op = "stop" => (stop_hooks > 0 /\ text_base_addr_cache # None)
\* a connect that imported and then subscribed the hook
C8_Witness ==
    /\ last.op = "invoke" /\ last.imported # None
    /\ Called(log, "events.stop.connect")
    /\ stop_hooks = 1

\* C9: a connect command whose transport connect fails, issued while
\* Disconnected, reports an error and leaves the session as it was:
\* Disconnected, hook not subscribed, importer not run, session name and
\* static base unchanged.
C9_FailedConnectChangesNothing ==
    [][(~link /\ last'.op = "invoke" /\ last'.linkUp = Some(FALSE))
        => /\ Called(log', "err")
           /\ ~link'
           /\ stop_hooks' = stop_hooks
           /\ ~Called(log', "update_symbols")
           /\ name' = name
           /\ text_segment_base_addr' = text_segment_base_addr]_vars

\* C10: a second disconnect command right after a first raises no error,
\* unsubscribes nothing and leaves the session state as the first left it.
C10_DisconnectTwice ==
    [][(IsInvoke(last, L_disconnect_ida) /\ IsInvoke(last', L_disconnect_ida)
        /\ last'.again)
        => /\ last'.exc = "none"
           /\ stop_hooks' = stop_hooks
           /\ link' = link
           /\ name' = name
           /\ text_segment_base_addr' = text_segment_base_addr]_vars

\* C11: with the base fixed, when the binary is PIE rebase_addr(a, up=True)
\* is a + base and rebasing its result down gives a again; when the binary
\* is not PIE rebase_addr(a, up) is a in both directions.
C11_RebaseRoundTrip ==
    (last.op = "rebase_addr")
        => /\ last.exc = "none" /\ outcome[1].exc = "none"
           /\ outcome[1].back = outcome[1].addr
           /\ _is_pie # None
           /\ _is_pie[1]
                => outcome[1].there =
                       IF outcome[1].up
                       THEN outcome[1].addr + text_base_addr_cache[1][1]
                       ELSE outcome[1].addr - text_base_addr_cache[1][1]
           /\ ~_is_pie[1] => outcome[1].there = outcome[1].addr
\* a PIE binary with a non-zero base: an address rebased up and back
C11_Witness ==
    /\ last.op = "rebase_addr" /\ _is_pie = Some(TRUE)
    /\ outcome[1].up /\ text_base_addr_cache[1][1] = 64
    /\ outcome[1].addr = 2 /\ outcome[1].there = 66 /\ outcome[1].back = 2

\* C12: whenever the session is Disconnected (initially, after a
\* disconnect, after a failed connect) the addressing mode is unresolved:
\* the static base, its cache and the PIE flag hold no value.
C12_DisconnectedIsUnresolved ==
    ~link => /\ text_segment_base_addr = None
             /\ text_base_addr_cache = None
             /\ _is_pie = None

\* C13: for an unknown command or malformed arguments, invoke catches the
\* parse failure, shows the usage text, dispatches to no handler and leaves
\* the session name, static base, connection state and hook subscription
\* unchanged.
Malformed == {L_bogus_ida, L_connect_bad_base, L_connect}
C13_ParseFailureCaught ==
    [][(last'.op = "invoke" /\ last'.arg \in Malformed)
        => /\ last'.exc = "none"
           /\ Called(log', "print_help")
           /\ ~Called(log', "_handle_cmd")
           /\ name' = name
           /\ text_segment_base_addr' = text_segment_base_addr
           /\ link' = link
           /\ stop_hooks' = stop_hooks]_vars

\* C14: `decompiler info`, given with no decompiler name, reaches the info
\* handler, which displays the session name and base address and changes no
\* session state, in the Connected and in the Disconnected state.
C14_InfoWithoutName ==
    [][IsInvoke(last', L_info)
        => /\ last'.exc = "none"
           /\ Called(log', "_handle_cmd")
           /\ Called(log', "info") /\ Called(log', "print")
           /\ name' = name
           /\ text_segment_base_addr' = text_segment_base_addr
           /\ text_base_addr_cache' = text_base_addr_cache
           /\ _is_pie' = _is_pie
           /\ native_sym_support' = native_sym_support
           /\ link' = link
           /\ stop_hooks' = stop_hooks]_vars

\* C15: _clean_type_str equals the two-step reference on every type
\* string: if the input contains `__`, every `__` is removed and `_t` is put
\* before the first `[` of the stripped string (appended when there is
\* none); then every `unsigned ` becomes `u`.
\* what f gives at the positions of s where keep holds, in order
RECURSIVE Gather(_, _, _, _)
Gather(s, i, keep, f) ==
    IF i > Len(s) THEN << >>
    ELSE (IF keep[i] THEN f[i] ELSE << >>) \o Gather(s, i + 1, keep, f)
HasDoubleUnderscore(s) == \E i \in 1..(Len(s) - 1) : s[i] = "_" /\ s[i + 1] = "_"
\* the first position of the run of underscores that holds position i
RunStart(s, i) ==
    CHOOSE a \in 1..i :
        /\ \A k \in a..i : s[k] = "_"
        /\ (a = 1 \/ s[a - 1] # "_")
RunEnd(s, i) ==
    CHOOSE b \in i..Len(s) :
        /\ \A k \in i..b : s[k] = "_"
        /\ (b = Len(s) \/ s[b + 1] # "_")
\* of a run of n underscores the first 2 * (n \div 2) go, pair by pair
InRemovedPair(s, i) ==
    /\ s[i] = "_"
    /\ i - RunStart(s, i) < 2 * ((RunEnd(s, i) - RunStart(s, i) + 1) \div 2)
WithoutDoubleUnderscores(s) ==
    Gather(s, 1, [i \in 1..Len(s) |-> ~InRemovedPair(s, i)],
                 [i \in 1..Len(s) |-> <<s[i]>>])
WithSuffix(s) ==
    LET B == {i \in 1..Len(s) : s[i] = "["} IN
    IF B = {} THEN s \o <<"_","t">>
    ELSE LET m == CHOOSE i \in B : \A j \in B : i <= j
         IN  SubSeq(s, 1, m - 1) \o <<"_","t">> \o SubSeq(s, m, Len(s))
\* `unsigned ` cannot overlap itself: each occurrence becomes `u`
UnsignedAt(s, i) == i >= 1 /\ i + 8 <= Len(s) /\ SubSeq(s, i, i + 8) = S_unsigned_
WithoutUnsigned(s) ==
    Gather(s, 1, [i \in 1..Len(s) |-> ~\E j \in (i - 8)..(i - 1) : UnsignedAt(s, j)],
                 [i \in 1..Len(s) |-> IF UnsignedAt(s, i) THEN <<"u">> ELSE <<s[i]>>])
Reference(s) ==
    WithoutUnsigned(IF HasDoubleUnderscore(s)
                    THEN WithSuffix(WithoutDoubleUnderscores(s))
                    ELSE s)
C15_CleanTypeStrIsReference ==
    Len(outcome) >= 1 => outcome[1] = Reference(input.type_str)
\* `unsigned __[`: stripped and suffixed before the bracket, then
\* `unsigned ` rewritten
C15_Witness ==
    /\ Len(outcome) >= 1
    /\ input.type_str = S_unsigned_ \o <<"_","_","[">>
    /\ outcome[1] = <<"u","_","t","[">>

\* C16: for every type string whose normalized form contains no `__` and
\* no `unsigned `, normalizing the normalized form leaves it unchanged.
C16_CleanTypeStrIdempotent ==
    (/\ Len(outcome) = 2
     /\ ~Contains(outcome[1], <<"_","_">>)
     /\ ~Contains(outcome[1], S_unsigned_))
        => outcome[2] = outcome[1]
\* `unsigned __int` gives `uint_t`, and `uint_t` gives `uint_t`
C16_Witness ==
    /\ Len(outcome) = 2
    /\ input.type_str = S_unsigned_ \o <<"_","_">> \o S_int
    /\ outcome[1] = <<"u">> \o S_int \o <<"_","t">>
    /\ outcome[2] = outcome[1]

\* C17: in every reachable state the display callback is subscribed to
\* the stop event exactly once when the session is Connected and not at all
\* when it is Disconnected.
C17_HookOncePerSession ==
    /\ link => stop_hooks = 1
    /\ ~link => stop_hooks = 0

\* C18: in one update_function_data pass every register variable and
\* every stack variable is attempted: a failure at any step of handling one
\* variable skips that variable only and the pass goes on to the end.
C18_EveryVariableAttempted ==
    outcome # None
        => /\ \A i \in 1..Len(outcome[1].reg) : outcome[1].reg[i] # "unreached"
           /\ \A i \in 1..Len(outcome[1].stack) : outcome[1].stack[i] # "unreached"

\* C19: on a successful connect, when --base-addr is supplied (0 included)
\* the text-segment lookup is not called and the session base is the
\* supplied value; when it is not supplied the lookup is called exactly once
\* and its result becomes the session base; either way the symbol importer
\* is called exactly once.
Count(l, e) == Cardinality({i \in 1..Len(l) : l[i] = e})
Supplied(arg) == parse_args(Split(arg)).ns.base_addr
C19_BaseResolvedOnce ==
    (last.op = "invoke" /\ last.linkUp = Some(TRUE))
        => /\ Supplied(last.arg) # None
                => /\ Count(log, "find_text_segment_base_addr") = 0
                   /\ text_segment_base_addr = Supplied(last.arg)
           /\ Supplied(last.arg) = None
                => /\ Count(log, "find_text_segment_base_addr") = 1
                   /\ last.val # None
                   /\ text_segment_base_addr = last.val
           /\ Count(log, "update_symbols") = 1
\* a successful `connect ida --base-addr 0`: base 0, no lookup, one import
C19_Witness ==
    /\ IsInvoke(last, L_connect_ida_0) /\ last.linkUp = Some(TRUE)
    /\ text_segment_base_addr = Some(0)
    /\ ~Called(log, "find_text_segment_base_addr")
    /\ Count(log, "update_symbols") = 1

TypeOK ==
    /\ stop_hooks \in 0..MaxHooks
    /\ native_sym_support \in BOOLEAN
    /\ link \in BOOLEAN
====
